---- MODULE Spec2Model ----
(***************************************************************************)
(* Ashlock fingerprint pipeline (axelrod/fingerprint.py) and MyStrategy    *)
(* (axelrod/strategies/mystrategy.py).                                     *)
(*                                                                         *)
(* Numbers of the unit square are fixed-point: the integer v stands for    *)
(* the real v/Unit, so 1.0 is Unit and a step s stands for s/Unit.         *)
(* Arithmetic on them is exact (no floating-point rounding).               *)
(* Scores are exact fractions <<n, d>> in lowest terms.                    *)
(***************************************************************************)
EXTENDS Integers, Sequences, FiniteSets, TLC

\* resolution of the fixed-point unit square: v stands for v / Unit
Unit == 6
\* longest coordinate list handed directly to create_edges
MaxLen == 2

VARIABLES
    on_windows,     \* axelrod.on_windows, a property of the host
    attrs,          \* names of the attributes set on the AshlockFingerprint
    coordinates,    \* self.coordinates
    step,           \* self.step
    interactions,   \* self.interactions (kept while fingerprint runs)
    data,           \* self.data
    edges,          \* edges last returned by construct_tournament_elements
    tourn_players,  \* roster last returned by construct_tournament_elements
    pc,             \* position inside fingerprint, "idle" outside
    frame,          \* arguments and locals of the running fingerprint call
    outputfile,     \* the file object fingerprint opened last
    last,           \* outcome of the last completed call
    call            \* last direct call of a module-level function

orch_vars == <<on_windows, attrs, coordinates, step, interactions, data,
               edges, tourn_players, pc, frame, outputfile, last>>
vars == <<on_windows, attrs, coordinates, step, interactions, data,
          edges, tourn_players, pc, frame, outputfile, last, call>>

----------------------------------------------------------------------------
(* Arithmetic helpers *)

\* ceil(a / b) for a >= 0, b > 0
Ceil(a, b) == (a + b - 1) \div b

\* floor(a / b) for a >= 0, b > 0: Python's (a / b) // 1
Floor(a, b) == a \div b

RECURSIVE GCD(_, _)
GCD(a, b) == IF b = 0 THEN a ELSE GCD(b, a % b)

\* the fraction n/d (d > 0, n >= 0) in lowest terms
Frac(n, d) == LET g == GCD(n, d) IN <<n \div g, d \div g>>

FracAdd(p, q) == Frac(p[1] * q[2] + q[1] * p[2], p[2] * q[2])

RECURSIVE SumSeq(_)
SumSeq(s) == IF s = <<>> THEN 0 ELSE Head(s) + SumSeq(Tail(s))

RECURSIVE FracSum(_)
FracSum(s) == IF s = <<>> THEN <<0, 1>> ELSE FracAdd(Head(s), FracSum(Tail(s)))

\* not-a-number, numpy's mean of an empty list
NaN == <<0, 0>>

\* numpy.mean of a list of fractions
np_mean(s) ==
    IF s = <<>> THEN NaN
    ELSE LET t == FracSum(s) IN Frac(t[1], t[2] * Len(s))

\* numpy.arange(start, stop, step): ceil((stop - start) / step) values
\* start, start + step, ...
np_arange(start, stop, st) ==
    [i \in 1..Ceil(stop - start, st) |-> start + (i - 1) * st]

----------------------------------------------------------------------------
(* Module-level functions of fingerprint.py *)

Point(x, y) == <<x, y>>

\* JossAnnTransformer(params)(probe)(): the probe player and its parameters
JossAnn(params) == [kind |-> "probe", params |-> params]

\* mutant: the parameters subtracted from 1 without being swapped
create_jossann_unswapped(coordinate) ==
    LET x == coordinate[1]
        y == coordinate[2]
    IN  IF x + y > Unit
        THEN JossAnn(<<Unit - x, Unit - y>>)
        ELSE JossAnn(<<x, y>>)

create_jossann(coordinate) ==
    LET x == coordinate[1]
        y == coordinate[2]
    IN  IF x + y > Unit
        THEN JossAnn(<<Unit - y, Unit - x>>)
        ELSE JossAnn(<<x, y>>)

\* mutant: the axis runs up to and including 1
create_coordinates_closed(st) ==
    LET axis == np_arange(0, Unit + 1, st)
        n == Len(axis)
    IN  [i \in 1..(n * n) |->
            Point(axis[((i - 1) \div n) + 1], axis[((i - 1) % n) + 1])]

create_coordinates(st) ==
    LET axis == np_arange(0, Unit, st)
        n == Len(axis)
    IN  [i \in 1..(n * n) |->
            Point(axis[((i - 1) \div n) + 1], axis[((i - 1) % n) + 1])]

create_probes(coords) ==
    [i \in 1..Len(coords) |-> create_jossann(coords[i])]

\* mutant: a sum of exactly 1 is paired with the dual
create_edges_at_least(coords) ==
    [i \in 1..Len(coords) |->
        IF coords[i][1] + coords[i][2] >= Unit
        THEN <<1, (i - 1) + 2>>
        ELSE <<0, (i - 1) + 2>>]

\* position i of the sequence is Python index i - 1, so index + 2 is i + 1
create_edges(coords) ==
    [i \in 1..Len(coords) |->
        IF coords[i][1] + coords[i][2] > Unit
        THEN <<1, (i - 1) + 2>>
        ELSE <<0, (i - 1) + 2>>]

\* final score per turn of one repetition's record: total payoff / turns
compute_final_score_per_turn(scores) == Frac(SumSeq(scores), Len(scores))

\* a Python dict: its keys in insertion order and the value of each
EmptyDict == [keys |-> <<>>, val |-> [k \in {} |-> NaN]]

DictSet(d, k, v) ==
    IF k \in DOMAIN d.val
    THEN [d EXCEPT !.val = [j \in DOMAIN d.val |-> IF j = k THEN v ELSE d.val[j]]]
    ELSE [keys |-> Append(d.keys, k),
          val |-> [j \in (DOMAIN d.val) \cup {k} |-> IF j = k THEN v ELSE d.val[j]]]

Min(a, b) == IF a < b THEN a ELSE b

\* dict(zip(ks, vs)): pairs up to the shorter list, inserted in order
RECURSIVE DictZip(_, _, _)
DictZip(ks, vs, n) ==
    IF n = 0 THEN EmptyDict
    ELSE DictSet(DictZip(ks, vs, n - 1), ks[n], vs[n])

\* what a call returns, or that it raised
Returned(value) == [raised |-> FALSE, value |-> value]
Raised == [raised |-> TRUE, value |-> <<>>]

\* mutant: the score of the first repetition instead of the mean
generate_data_first_repetition(inter, coords, edgs) ==
    IF \E i \in 1..Len(edgs) : edgs[i] \notin DOMAIN inter
    THEN Raised
    ELSE LET edge_scores ==
                 [i \in 1..Len(edgs) |->
                     compute_final_score_per_turn(inter[edgs[i]][1])]
         IN  Returned(DictZip(coords, edge_scores,
                              Min(Len(coords), Len(edge_scores))))

\* mutant: an edge without records scores zero (interactions.get(edge, []))
generate_data_defaulting(inter, coords, edgs) ==
    LET edge_scores ==
            [i \in 1..Len(edgs) |->
                IF edgs[i] \notin DOMAIN inter THEN <<0, 1>>
                ELSE np_mean([r \in 1..Len(inter[edgs[i]]) |->
                        compute_final_score_per_turn(inter[edgs[i]][r])])]
    IN  Returned(DictZip(coords, edge_scores,
                         Min(Len(coords), Len(edge_scores))))

\* generate_data: interactions[edge] raises KeyError for an edge without
\* records, before any score is paired with a coordinate
generate_data(inter, coords, edgs) ==
    IF \E i \in 1..Len(edgs) : edgs[i] \notin DOMAIN inter
    THEN Raised
    ELSE LET edge_scores ==
                 [i \in 1..Len(edgs) |->
                     np_mean([r \in 1..Len(inter[edgs[i]]) |->
                         compute_final_score_per_turn(inter[edgs[i]][r])])]
         IN  Returned(DictZip(coords, edge_scores,
                              Min(Len(coords), Len(edge_scores))))

----------------------------------------------------------------------------
(* MyStrategy (strategies/mystrategy.py) and the match of its test *)

C == "C"
D == "D"

\* draws of random.random(), in thousandths
Draws == {0, 125, 126, 250, 251, 999}

\* len(history) / 30 in true division, then % 2 == 0: the quotient is an
\* even whole number
plays_tft(n) ==
    LET q == Frac(n, 30) IN q[2] = 1 /\ q[1] % 2 = 0

\* the body of strategy, with the names self and random bound
strategy_body(self_history, opponent_history, p) ==
    IF Len(self_history) = 0 THEN C
    ELSE IF plays_tft(Len(self_history))
    THEN opponent_history[Len(opponent_history)]
    ELSE LET opp == opponent_history[Len(opponent_history)]
             own == self_history[Len(self_history)]
         IN  IF opp = C /\ own = C THEN C
             ELSE IF opp = D /\ own = C
             THEN (IF p <= 125 THEN C ELSE D)
             ELSE IF opp = C /\ own = D THEN C
             ELSE (IF p <= 250 THEN C ELSE D)

\* parameters in "def strategy(opponent)"
strategy_params == <<"opponent">>

\* player.strategy(opponent): the bound method passes the player first
strategy(self_history, opponent_history, p) ==
    IF Len(<<"self", "opponent">>) # Len(strategy_params)
    THEN "TypeError"
    ELSE strategy_body(self_history, opponent_history, p)

Opponents == {"Alternator", "Cooperator", "Defector"}

\* the opponent's move when it has played n moves
opponent_move(opponent, n) ==
    CASE opponent = "Cooperator" -> C
      [] opponent = "Defector" -> D
      [] OTHER -> IF n % 2 = 0 THEN C ELSE D

\* versus_test's match: turns simultaneous moves, ps[t] the draw of turn t;
\* the match stops at the first call that raises
RECURSIVE play_match(_, _, _)
play_match(opponent, ps, turns) ==
    IF turns = 0 THEN [status |-> "ok", own |-> <<>>, opp |-> <<>>]
    ELSE LET before == play_match(opponent, ps, turns - 1)
             move == strategy(before.own, before.opp, ps[turns])
         IN  IF before.status # "ok" THEN before
             ELSE IF move \notin {C, D}
             THEN [before EXCEPT !.status = move]
             ELSE [status |-> "ok",
                   own |-> Append(before.own, move),
                   opp |-> Append(before.opp,
                                  opponent_move(opponent, turns - 1))]

\* expected_actions of test_strategy, the player's side
expected_actions(opponent) ==
    CASE opponent = "Alternator" -> <<C, C, D>>
      [] opponent = "Cooperator" -> <<C, C, C>>
      [] OTHER -> <<C, D, D>>

----------------------------------------------------------------------------
(* AshlockFingerprint *)

\* step arguments of the orchestrator's calls: at least one half, which
\* keeps the grid at two by two or smaller
Steps == {s \in 1..Unit : 2 * s >= Unit}

\* one repetition's record: the scored side's payoff per turn
RecordLists == { << <<3, 3>>, <<0, 1>> >>, << <<0, 1>>, <<0, 1>> >> }

Range(s) == {s[i] : i \in DOMAIN s}

\* what the tournament engine can hand back for the edges it was given:
\* the repetitions' records of the edges it has records for
EngineOutputs(edgs) ==
    UNION {[S -> RecordLists] : S \in SUBSET Range(edgs)}

NoInteractions == [e \in {} |-> <<>>]
NoFrame == [step |-> 0, filename |-> "None", in_memory |-> FALSE,
            written |-> NoInteractions]
NoFile == [kind |-> "none", open |-> FALSE]

Outcome(op, status, value) == [op |-> op, status |-> status, value |-> value]

Called(fn, arg, ret) == [fn |-> fn, arg |-> arg, ret |-> ret]

\* mutant: the dual left out of the roster
roster_without_dual(coords) ==
    <<[kind |-> "strategy", params |-> <<>>]>> \o create_probes(coords)

\* [self.strategy(), dual] + probe_players
roster(coords) ==
    <<[kind |-> "strategy", params |-> <<>>],
      [kind |-> "dual", params |-> <<>>]>> \o create_probes(coords)

\* the body of construct_tournament_elements
construct(st) ==
    /\ coordinates' = create_coordinates(st)
    /\ edges' = create_edges(create_coordinates(st))
    /\ tourn_players' = roster(create_coordinates(st))

Init ==
    /\ on_windows \in BOOLEAN
    /\ attrs = {}
    /\ coordinates = <<>>
    /\ step = 0
    /\ interactions = NoInteractions
    /\ data = EmptyDict
    /\ edges = <<>>
    /\ tourn_players = <<>>
    /\ pc = "idle"
    /\ frame = NoFrame
    /\ outputfile = NoFile
    /\ last = Outcome("init", "ok", <<>>)
    /\ call = Called("none", <<>>, <<>>)

\* a direct call of construct_tournament_elements(step)
ConstructTournamentElements ==
    /\ pc = "idle"
    /\ \E st \in Steps : construct(st)
    /\ attrs' = attrs \cup {"coordinates"}
    /\ last' = Outcome("construct_tournament_elements", "ok", <<>>)
    /\ UNCHANGED <<on_windows, step, interactions, data, pc, frame,
                   outputfile, call>>

\* fingerprint, lines 218-226: the execution mode and the output file
FingerprintOpen ==
    /\ pc = "idle"
    /\ \E st \in Steps, filename \in {"None", "out.csv"} :
         LET in_memory == on_windows /\ filename = "None" IN
         /\ frame' = [step |-> st, filename |-> filename,
                      in_memory |-> in_memory, written |-> NoInteractions]
         /\ outputfile' =
              IF in_memory THEN NoFile
              ELSE IF filename # "None" THEN [kind |-> "named", open |-> TRUE]
              ELSE [kind |-> "temp", open |-> TRUE]
    /\ pc' = "construct"
    /\ UNCHANGED <<on_windows, attrs, coordinates, step, interactions, data,
                   edges, tourn_players, last, call>>

\* fingerprint, lines 228-233
FingerprintConstruct ==
    /\ pc = "construct"
    /\ construct(frame.step)
    /\ step' = frame.step
    /\ attrs' = attrs \cup {"coordinates", "step"}
    /\ pc' = "play"
    /\ UNCHANGED <<on_windows, interactions, data, frame, outputfile, last,
                   call>>

\* leaving fingerprint by an exception: the locals stay referenced by the
\* traceback, nothing closes the output file
raise(status) ==
    /\ pc' = "idle"
    /\ frame' = NoFrame
    /\ interactions' = NoInteractions
    /\ last' = Outcome("fingerprint", status, <<>>)
    /\ UNCHANGED outputfile

\* fingerprint, lines 234-243: the engine plays and hands back its records
FingerprintPlay ==
    /\ pc = "play"
    /\ \E inter \in EngineOutputs(edges) :
         IF frame.in_memory
         THEN /\ interactions' = inter
              /\ pc' = "reduce"
              /\ UNCHANGED frame
         ELSE /\ frame' = [frame EXCEPT !.written = inter]
              /\ pc' = "read"
              /\ UNCHANGED interactions
    /\ UNCHANGED <<on_windows, attrs, coordinates, step, data, edges,
                   tourn_players, outputfile, last, call>>

\* the engine raises
FingerprintPlayRaises ==
    /\ pc = "play"
    /\ raise("EngineError")
    /\ UNCHANGED <<on_windows, attrs, coordinates, step, data, edges,
                   tourn_players, call>>

\* fingerprint, line 244
FingerprintRead ==
    /\ pc = "read"
    /\ interactions' = frame.written
    /\ pc' = "reduce"
    /\ UNCHANGED <<on_windows, attrs, coordinates, step, data, edges,
                   tourn_players, frame, outputfile, last, call>>

\* read_interactions_from_file raises
FingerprintReadRaises ==
    /\ pc = "read"
    /\ raise("ReaderError")
    /\ UNCHANGED <<on_windows, attrs, coordinates, step, data, edges,
                   tourn_players, call>>

\* fingerprint, lines 246-247: the reduction and the return.  The output
\* file is closed when its last reference goes: at once where objects are
\* reference-counted, at some later collection elsewhere
FingerprintReduce ==
    /\ pc = "reduce"
    /\ ~generate_data(interactions, coordinates, edges).raised
    /\ data' = generate_data(interactions, coordinates, edges).value
    /\ attrs' = attrs \cup {"data"}
    /\ pc' = "idle"
    /\ frame' = NoFrame
    /\ interactions' = NoInteractions
    /\ last' = Outcome("fingerprint", "ok", <<>>)
    /\ \E prompt \in BOOLEAN :
         outputfile' = IF prompt THEN [outputfile EXCEPT !.open = FALSE]
                       ELSE outputfile
    /\ UNCHANGED <<on_windows, coordinates, step, edges, tourn_players, call>>

\* generate_data raises KeyError
FingerprintReduceRaises ==
    /\ pc = "reduce"
    /\ generate_data(interactions, coordinates, edges).raised
    /\ raise("KeyError")
    /\ UNCHANGED <<on_windows, attrs, coordinates, step, data, edges,
                   tourn_players, call>>

\* the garbage collector finalises the unreferenced file object: it is
\* closed, and a NamedTemporaryFile is removed
Finalize ==
    /\ pc = "idle"
    /\ outputfile.open
    /\ outputfile' = [outputfile EXCEPT !.open = FALSE]
    /\ UNCHANGED <<on_windows, attrs, coordinates, step, interactions, data,
                   edges, tourn_players, pc, frame, last, call>>

\* numpy.reshape(values, (size, size))
np_reshape(values, size) ==
    [r \in 1..size |-> [c \in 1..size |-> values[(r - 1) * size + c]]]

\* mutant: the side rounded up instead of down
plot_side_rounded_up(float_shape_ok) ==
    IF ~({"step", "coordinates", "data"} \subseteq attrs)
    THEN Outcome("plot", "AttributeError", <<>>)
    ELSE LET size == Ceil(Unit, step) IN
         IF \E i \in 1..Len(coordinates) : coordinates[i] \notin DOMAIN data.val
         THEN Outcome("plot", "KeyError", <<>>)
         ELSE LET ordered_data ==
                      [i \in 1..Len(coordinates) |-> data.val[coordinates[i]]]
              IN  IF ~float_shape_ok
                  THEN Outcome("plot", "TypeError", <<>>)
                  ELSE IF Len(ordered_data) # size * size
                  THEN Outcome("plot", "ValueError", <<>>)
                  ELSE Outcome("plot", "ok", np_reshape(ordered_data, size))

\* what plot returns or raises
plot(float_shape_ok) ==
    IF ~({"step", "coordinates", "data"} \subseteq attrs)
    THEN Outcome("plot", "AttributeError", <<>>)
    ELSE LET size == Floor(Unit, step) IN
         IF \E i \in 1..Len(coordinates) : coordinates[i] \notin DOMAIN data.val
         THEN Outcome("plot", "KeyError", <<>>)
         ELSE LET ordered_data ==
                      [i \in 1..Len(coordinates) |-> data.val[coordinates[i]]]
              IN  IF ~float_shape_ok
                  THEN Outcome("plot", "TypeError", <<>>)
                  ELSE IF Len(ordered_data) # size * size
                  THEN Outcome("plot", "ValueError", <<>>)
                  ELSE Outcome("plot", "ok", np_reshape(ordered_data, size))

\* a call of plot; size is a float, which numpy.reshape takes as a
\* dimension in some releases and rejects in others
Plot ==
    /\ pc = "idle"
    /\ \E float_shape_ok \in BOOLEAN : last' = plot(float_shape_ok)
    /\ UNCHANGED <<on_windows, attrs, coordinates, step, interactions, data,
                   edges, tourn_players, pc, frame, outputfile, call>>

Next ==
    \/ ConstructTournamentElements
    \/ FingerprintOpen
    \/ FingerprintConstruct
    \/ FingerprintPlay
    \/ FingerprintPlayRaises
    \/ FingerprintRead
    \/ FingerprintReadRaises
    \/ FingerprintReduce
    \/ FingerprintReduceRaises
    \/ Finalize
    \/ Plot

Spec == Init /\ [][Next]_vars

----------------------------------------------------------------------------
(* Direct calls of the module-level functions and of the strategy's match. *)
(* The functions keep no state, so a behaviour makes one call.             *)

\* the closed unit square
Square == (0..Unit) \X (0..Unit)

CoordinateLists == UNION {[1..n -> Square] : n \in 0..MaxLen}

CallCreateCoordinates ==
    /\ call.fn = "none"
    /\ \E st \in 1..Unit :
         call' = Called("create_coordinates", st, create_coordinates(st))
    /\ UNCHANGED orch_vars

CallCreateJossann ==
    /\ call.fn = "none"
    /\ \E coordinate \in Square :
         call' = Called("create_jossann", coordinate, create_jossann(coordinate))
    /\ UNCHANGED orch_vars

CallCreateEdges ==
    /\ call.fn = "none"
    /\ \E coords \in CoordinateLists :
         call' = Called("create_edges", coords, create_edges(coords))
    /\ UNCHANGED orch_vars

\* arguments of the direct calls of generate_data: coordinates and edges
\* are any lists, the interactions any records of some of the edges
SamplePoints == {<<0, 0>>, <<0, Unit>>, <<Unit, Unit>>}
SampleEdges == {<<0, 2>>, <<0, 3>>, <<1, 4>>}
PointLists == UNION {[1..n -> SamplePoints] : n \in 0..MaxLen}
EdgeLists == UNION {[1..n -> SampleEdges] : n \in 0..MaxLen}

CallGenerateData ==
    /\ call.fn = "none"
    /\ \E coords \in PointLists, edgs \in EdgeLists,
          inter \in UNION {[S -> RecordLists] : S \in SUBSET SampleEdges} :
         call' = Called("generate_data", <<inter, coords, edgs>>,
                        generate_data(inter, coords, edgs))
    /\ UNCHANGED orch_vars

\* versus_test(opponent, expected_actions, seed): three turns
CallVersusTest ==
    /\ call.fn = "none"
    /\ \E opponent \in Opponents, ps \in [1..3 -> Draws] :
         call' = Called("versus_test", <<opponent, ps>>,
                        play_match(opponent, ps, 3))
    /\ UNCHANGED orch_vars

NextPure ==
    \/ CallCreateCoordinates
    \/ CallCreateJossann
    \/ CallCreateEdges
    \/ CallGenerateData
    \/ CallVersusTest

PureSpec == Init /\ [][NextPure]_vars

----------------------------------------------------------------------------
(* Properties *)

Sum2(coordinate) == coordinate[1] + coordinate[2]

\* the parameters the canonicalisation rule gives a coordinate
Folded(coordinate) ==
    IF Sum2(coordinate) > Unit
    THEN <<Unit - coordinate[2], Unit - coordinate[1]>>
    ELSE coordinate

\* C1: create_edges returns one edge per input coordinate, in input order;
\* the edge at (0-based) position i is (source, i + 2) with source 0 or 1,
\* and source is 1 exactly when x + y > 1, so a sum of exactly 1 gives 0.
C1_EdgesFollowCoordinates ==
    call.fn = "create_edges" =>
        /\ Len(call.ret) = Len(call.arg)
        /\ \A i \in 1..Len(call.arg) :
             /\ call.ret[i][2] = (i - 1) + 2
             /\ call.ret[i][1] \in {0, 1}
             /\ (call.ret[i][1] = 1) <=> (Sum2(call.arg[i]) > Unit)
             /\ (Sum2(call.arg[i]) = Unit) => (call.ret[i][1] = 0)

C1_Witness ==
    /\ call.fn = "create_edges"
    /\ Len(call.arg) = 2
    /\ Sum2(call.arg[1]) = Unit /\ call.ret[1] = <<0, 2>>
    /\ Sum2(call.arg[2]) > Unit /\ call.ret[2] = <<1, 3>>

\* the number of multiples of st in [0, 1): the least n with n * st >= 1
AxisLength(st) == CHOOSE n \in 1..Unit : n * st >= Unit /\ (n - 1) * st < Unit

\* C2: for a step in (0, 1], create_coordinates returns ceil(1/step)^2
\* coordinates, all with both components in [0, 1), in row-major order
\* (x outer, y inner, each 0, step, 2*step, ...), none repeated.
C2_CoordinateGrid ==
    call.fn = "create_coordinates" =>
        LET st == call.arg
            n == AxisLength(st)
            cs == call.ret
        IN  /\ Len(cs) = n * n
            /\ \A i \in 1..Len(cs) :
                 /\ cs[i][1] >= 0 /\ cs[i][1] < Unit
                 /\ cs[i][2] >= 0 /\ cs[i][2] < Unit
            /\ \A j \in 0..(n - 1), k \in 0..(n - 1) :
                 j * n + k + 1 \in DOMAIN cs
                 /\ cs[j * n + k + 1] = <<j * st, k * st>>
            /\ \A i \in 1..Len(cs), j \in 1..Len(cs) :
                 i # j => cs[i] # cs[j]

C2_Witness ==
    /\ call.fn = "create_coordinates"
    /\ Unit % call.arg # 0
    /\ Len(call.ret) >= 4
    /\ call.ret[2] = <<0, call.arg>>

\* C3: create_jossann gives the probe the parameters (1 - y, 1 - x) when
\* x + y > 1 and (x, y) otherwise; the parameters (p, q) lie in [0, 1]^2,
\* satisfy p + q <= 1, and canonicalising them again changes nothing.
C3_CanonicalParameters ==
    call.fn = "create_jossann" =>
        LET x == call.arg[1]
            y == call.arg[2]
            p == call.ret.params[1]
            q == call.ret.params[2]
        IN  /\ call.ret.params =
                 IF x + y > Unit THEN <<Unit - y, Unit - x>> ELSE <<x, y>>
            /\ p >= 0 /\ p <= Unit /\ q >= 0 /\ q <= Unit
            /\ p + q <= Unit
            /\ create_jossann(<<p, q>>).params = <<p, q>>

C3_Witness ==
    /\ call.fn = "create_jossann"
    /\ Sum2(call.arg) > Unit
    /\ call.arg[1] # call.arg[2]
    /\ call.ret.params = <<Unit - call.arg[2], Unit - call.arg[1]>>

\* the mean over the repetitions of the per-turn score of an edge's
\* records (every record of a tournament has the same number of turns)
IsMeanScore(score, recs) ==
    LET turns == Len(recs[1])
        total == SumSeq([r \in 1..Len(recs) |-> SumSeq(recs[r])])
    IN  /\ score[2] > 0
        /\ score[1] * (turns * Len(recs)) = total * score[2]

\* the mapping d holds one score per coordinate, keyed in the order of
\* coords, the score of coords[i] being the mean score of edgs[i]
OneScorePerCoordinate(d, inter, coords, edgs) ==
    /\ d.keys = coords
    /\ DOMAIN d.val = Range(coords)
    /\ Cardinality(DOMAIN d.val) = Len(coords)
    /\ \A i \in 1..Len(coords) :
         /\ i <= Len(edgs)
         /\ IsMeanScore(d.val[coords[i]], inter[edgs[i]])

PairwiseDistinct(s) == \A i \in 1..Len(s), j \in 1..Len(s) : i # j => s[i] # s[j]

\* C4 as stated: whenever generate_data returns, the mapping has exactly
\* one score for each input coordinate, its keys in order are the input
\* coordinate sequence, and the score of coordinates[i] is the mean over
\* the repetitions of the per-turn score of the records keyed by edges[i].
C4_ReductionPerCoordinate ==
    (call.fn = "generate_data" /\ ~call.ret.raised) =>
        OneScorePerCoordinate(call.ret.value, call.arg[1], call.arg[2],
                              call.arg[3])

\* C4 as amended: the same, for input coordinates that are pairwise
\* distinct and an edge list at least as long as the coordinate list.
C4_ReductionOfDistinctCoordinates ==
    (/\ call.fn = "generate_data"
     /\ ~call.ret.raised
     /\ PairwiseDistinct(call.arg[2])
     /\ Len(call.arg[3]) >= Len(call.arg[2])) =>
        OneScorePerCoordinate(call.ret.value, call.arg[1], call.arg[2],
                              call.arg[3])

C4_Witness ==
    /\ call.fn = "generate_data"
    /\ ~call.ret.raised
    /\ Len(call.arg[2]) = 2
    /\ call.arg[2][1] # call.arg[2][2]
    /\ call.ret.value.keys = call.arg[2]
    /\ call.ret.value.val[call.arg[2][1]] = <<7, 4>>
    /\ call.ret.value.val[call.arg[2][2]] = <<1, 2>>

\* the calls fingerprint makes satisfy the conditions of the amended C4:
\* its coordinates come from create_coordinates, its edges from create_edges
ReductionInsideFingerprint ==
    [][(pc = "reduce" /\ pc' = "idle" /\ last'.status = "ok") =>
        /\ PairwiseDistinct(coordinates)
        /\ Len(edges) = Len(coordinates)
        /\ OneScorePerCoordinate(data', interactions, coordinates, edges)
       ]_vars

\* C5: construct_tournament_elements returns a roster of n + 2 players,
\* [original, dual, probe_0, ..., probe_{n-1}], the probe at index i + 2
\* derived from coordinate i; every edge indexes inside the roster, its
\* source is the original (0) or the dual (1), and its target is the probe
\* of the coordinate that determined the edge.
C5_RosterLayout ==
    "coordinates" \in attrs =>
        LET n == Len(coordinates) IN
        /\ Len(tourn_players) = n + 2
        /\ tourn_players[1].kind = "strategy"
        /\ tourn_players[2].kind = "dual"
        /\ Len(edges) = n
        /\ \A i \in 1..n :
             LET probe == [kind |-> "probe", params |-> Folded(coordinates[i])]
                 source == edges[i][1]
                 target == edges[i][2]
             IN  /\ tourn_players[(i - 1) + 2 + 1] = probe
                 /\ source \in {0, 1}
                 /\ target >= 0 /\ target < Len(tourn_players)
                 /\ tourn_players[source + 1].kind =
                      IF Sum2(coordinates[i]) > Unit THEN "dual" ELSE "strategy"
                 /\ tourn_players[target + 1] = probe

C5_Witness ==
    /\ last.op = "construct_tournament_elements"
    /\ Len(coordinates) = 4
    /\ Len(tourn_players) = 6
    /\ edges[4] = <<1, 5>>
    /\ tourn_players[6].params # coordinates[4]

\* the running fingerprint call was given no output target on a host with
\* private temporary files
TempMode == frame.filename = "None" /\ ~frame.in_memory

\* C6: the temporary record store fingerprint creates when no output target
\* is given exists before the tournament is played and is released on every
\* exit path of fingerprint, the failing ones included.
C6_TempStoreScoped ==
    /\ (pc \in {"play", "read", "reduce"} /\ TempMode) =>
           outputfile = [kind |-> "temp", open |-> TRUE]
    /\ (pc = "idle" /\ last.op = "fingerprint" /\ outputfile.kind = "temp") =>
           ~outputfile.open

\* floor(1 / step): the greatest k with k * step <= 1
Side(st) == CHOOSE k \in 0..Unit : k * st <= Unit /\ (k + 1) * st > Unit

C8_MissingRecordsRaise ==
    [][(pc = "reduce"
        /\ \E i \in 1..Len(edges) : edges[i] \notin DOMAIN interactions) =>
            /\ last' = Outcome("fingerprint", "KeyError", <<>>)
            /\ data' = data
            /\ attrs' = attrs
       ]_vars

C8_Witness ==
    /\ last = Outcome("fingerprint", "KeyError", <<>>)
    /\ Len(coordinates) = 4
    /\ "data" \notin attrs

\* C9: against every opponent and for every sequence of random draws,
\* MyStrategy opens with C and on its second and third moves repeats the
\* opponent's previous move: C, D, D against Defector, C, C, D against
\* Alternator, C, C, C against Cooperator.
C9_OpensWithTitForTat ==
    call.fn = "versus_test" =>
        /\ call.ret.status = "ok"
        /\ call.ret.own = expected_actions(call.arg[1])

\* C10: between calls, whenever a result is stored, the stored coordinates
\* are those generated from the stored step and the stored result has
\* exactly one entry for each stored coordinate.
C10_RunStateConsistent ==
    (pc = "idle" /\ "data" \in attrs) =>
        /\ Len(coordinates) = AxisLength(step) * AxisLength(step)
        /\ \A j \in 0..(AxisLength(step) - 1), k \in 0..(AxisLength(step) - 1) :
             coordinates[j * AxisLength(step) + k + 1] = <<j * step, k * step>>
        /\ DOMAIN data.val = Range(coordinates)
        /\ Len(data.keys) = Len(coordinates)

====
